---- MODULE Spec2Model ----
(***************************************************************************)
(* Model of scripts/battery_replay.py: a battery-discharge profile is      *)
(* replayed through a KA3005P supply while an INA219 monitor is logged.    *)
(*                                                                         *)
(* Units: time in ticks of 50 ms (the supply's settle delay and the        *)
(* default sample interval are one tick), profile voltages in millivolts   *)
(* (the CSV column is an arbitrary float), commanded / logged voltages in  *)
(* centivolts (round(x, 2)).                                               *)
(***************************************************************************)
EXTENDS Integers, Sequences, FiniteSets, TLC

VARIABLES
    cfg,              \* the invocation: input file rows and --sample-interval
    pc,               \* position of the script
    now,              \* time.time(), in ticks
    jitter_used,      \* extra latency ticks consumed so far
    ina_opened,       \* the I2C bus / INA219 has been accessed
    psu_opened,       \* serial.Serial(...) has been constructed
    psu_closed,       \* psu.close() has been called
    idn,              \* response to *IDN? ("?" before the probe)
    sent,             \* commands written to the serial channel, in order
    profile_times,    \* column epoch
    profile_voltages, \* column voltage (mV)
    offsets,
    total_duration,
    start_time,
    sample_count,
    last_set_voltage,
    elapsed,
    target_v,         \* centivolts
    read_mark,        \* Len(sent) when the monitor was last read
    log,              \* rows written to the output CSV
    out_opened,       \* the output file has been opened (header written)
    cause,            \* "none", "fault" or "interrupt"
    fault_pc,         \* position at which the first fault / interrupt hit
    fault_mark,       \* Len(sent) when the first fault / interrupt hit
    faults,           \* number of exceptions raised
    exit_code,        \* -1 while running
    summary_done      \* summary statistics computed and report rendered

vars == << cfg, pc, now, jitter_used, ina_opened, psu_opened, psu_closed, idn,
           sent, profile_times, profile_voltages, offsets, total_duration,
           start_time, sample_count, last_set_voltage, elapsed, target_v,
           read_mark, log, out_opened, cause, fault_pc, fault_mark, faults,
           exit_code, summary_done >>

----------------------------------------------------------------------------
(* Bounds *)

\* longest generated two-point profile, in ticks
MaxDur == 3
\* extra ticks of device / scheduling latency a run may accumulate
MaxJitter == 2

----------------------------------------------------------------------------
(* Program constants, in ticks / milliamps *)

\* one tick is the 50 ms of time.sleep(0.05)
TicksPerSecond == 20
SettleTicks == TicksPerSecond \div 20
IdnWaitTicks == TicksPerSecond \div 10
OutputOnWaitTicks == TicksPerSecond \div 2
CurrentLimit == 500
NoneV == -1

----------------------------------------------------------------------------
(* Inputs *)

Row(e, v) == [epoch |-> e, voltage |-> v]

\* first epoch of the generated input files (absolute timestamps)
Epoch0 == 7

Volts == {3300, 3304, 3310}

TwoPointProfiles ==
    { << Row(Epoch0, v0), Row(Epoch0 + d, v1) >> :
        d \in 0..MaxDur, v0 \in Volts, v1 \in Volts }

ShortProfiles == { << >>, << Row(Epoch0, 3300) >> }

ThreePointProfiles ==
    { << Row(Epoch0, 3310), Row(Epoch0 + 2, 3300), Row(Epoch0 + 3, 3304) >>,
      << Row(Epoch0, 3300), Row(Epoch0 + 1, 3300), Row(Epoch0 + 3, 3310) >> }

\* the end-to-end scenario: [(0, 5.00), (10, 4.00)], poll interval 1 s
E2EProfile == << Row(0, 5000), Row(10 * TicksPerSecond, 4000) >>
E2EInterval == TicksPerSecond
E2E == [profile |-> E2EProfile, interval |-> E2EInterval]

Configs ==
    { [profile |-> p, interval |-> i] :
        p \in TwoPointProfiles \cup ShortProfiles \cup ThreePointProfiles,
        i \in {1, 2} }
    \cup { E2E }

----------------------------------------------------------------------------
(* Supply driver *)

Cmd(op, arg) == [op |-> op, arg |-> arg]

\* round(x, 2) of the value num/den millivolts, in centivolts.  An exact tie
\* is decided by the binary representation of the float, which the tick
\* grid does not determine: up chooses.
RoundCvFloor(num, den, up) == num \div (10 * den)
RoundCv(num, den, up) ==
    LET q == num \div (10 * den)
        r == num % (10 * den)
    IN  IF 2 * r < 10 * den THEN q
        ELSE IF 2 * r > 10 * den THEN q + 1
        ELSE IF up THEN q + 1 ELSE q

\* v in millivolts; the command carries round(v, 2) formatted with 2 decimals
set_voltage(v) == Cmd("VSET1", RoundCv(v, 1, TRUE))
set_current(i) == Cmd("ISET1", i)
output_on == Cmd("OUT1", 0)
output_off_swapped == Cmd("OUT1", 0)
output_off == Cmd("OUT0", 0)
idn_query == Cmd("IDN", 0)

----------------------------------------------------------------------------
(* Pure helpers of the script *)

IdnNeverMissing(resp) == FALSE
IdnMissing(resp) == resp = ""

Offsets(times) == [k \in 1..Len(times) |-> times[k] - times[1]]

\* index j with xp[j] <= x < xp[j+1] (the last such j)
Bracket(x, xp) ==
    CHOOSE j \in 1..Len(xp) :
        /\ xp[j] <= x
        /\ \A k \in 1..Len(xp) : xp[k] <= x => k <= j

\* round(float(np.interp(x, xp, fp)), 2), in centivolts
Interp(x, xp, fp, up) ==
    LET n == Len(xp)
    IN  IF x < xp[1] THEN RoundCv(fp[1], 1, up)
        ELSE IF x > xp[n] THEN RoundCv(fp[n], 1, up)
        ELSE LET j == Bracket(x, xp)
             IN  IF j = n \/ xp[j] = x THEN RoundCv(fp[j], 1, up)
                 ELSE LET den == xp[j + 1] - xp[j]
                          num == fp[j] * den + (fp[j + 1] - fp[j]) * (x - xp[j])
                      IN  RoundCv(num, den, up)

LoopDoneLate(e, total) == e > total + 1
LoopDone(e, total) == e > total

NeedsSendOnce(target, last) == last = NoneV
NeedsSend(target, last) == target # last

----------------------------------------------------------------------------
(* Initial state *)

Init ==
    /\ cfg \in Configs
    /\ pc = "ina_setup"
    /\ now = 0
    /\ jitter_used = 0
    /\ ina_opened = FALSE
    /\ psu_opened = FALSE
    /\ psu_closed = FALSE
    /\ idn = "?"
    /\ sent = << >>
    /\ profile_times = << >>
    /\ profile_voltages = << >>
    /\ offsets = << >>
    /\ total_duration = 0
    /\ start_time = 0
    /\ sample_count = 0
    /\ last_set_voltage = NoneV
    /\ elapsed = 0
    /\ target_v = 0
    /\ read_mark = 0
    /\ log = << >>
    /\ out_opened = FALSE
    /\ cause = "none"
    /\ fault_pc = "none"
    /\ fault_mark = 0
    /\ faults = 0
    /\ exit_code = -1
    /\ summary_done = FALSE

----------------------------------------------------------------------------
(* Steps of the script *)

hw == << ina_opened, psu_opened, psu_closed, idn >>
prof == << profile_times, profile_voltages, offsets, total_duration >>
loopv == << start_time, sample_count, last_set_voltage, elapsed, target_v,
            read_mark, log, out_opened >>
errv == << cause, fault_pc, fault_mark, faults >>

\* i2c = busio.I2C(...); ina = INA219(i2c)
InaSetup ==
    /\ pc = "ina_setup"
    /\ ina_opened' = TRUE
    /\ pc' = "psu_open"
    /\ UNCHANGED << cfg, now, jitter_used, psu_opened, psu_closed, idn, sent,
                    prof, loopv, errv, exit_code, summary_done >>

\* psu = serial.Serial(...); time.sleep(0.1)
PsuOpen ==
    /\ pc = "psu_open"
    /\ psu_opened' = TRUE
    /\ now' = now + IdnWaitTicks
    /\ pc' = "idn"
    /\ UNCHANGED << cfg, jitter_used, ina_opened, psu_closed, idn, sent,
                    prof, loopv, errv, exit_code, summary_done >>

\* psu.write(b'*IDN?'); time.sleep(0.1); idn = psu.read(...); if not idn: exit(2)
IdnProbe ==
    /\ pc = "idn"
    /\ \E resp \in {"", "KORAD KA3005P"} :
        /\ idn' = resp
        /\ IF IdnMissing(resp)
           THEN pc' = "exited" /\ exit_code' = 2
           ELSE pc' = "load" /\ exit_code' = exit_code
    /\ sent' = Append(sent, idn_query)
    /\ now' = now + IdnWaitTicks
    /\ UNCHANGED << cfg, jitter_used, ina_opened, psu_opened, psu_closed,
                    prof, loopv, errv, summary_done >>

\* read the CSV; fewer than two rows: exit(2); else offsets, total_duration
LoadProfile ==
    /\ pc = "load"
    /\ profile_times' = [k \in 1..Len(cfg.profile) |-> cfg.profile[k].epoch]
    /\ profile_voltages' = [k \in 1..Len(cfg.profile) |-> cfg.profile[k].voltage]
    /\ IF Len(cfg.profile) < 2
       THEN /\ pc' = "exited"
            /\ exit_code' = 2
            /\ UNCHANGED << offsets, total_duration >>
       ELSE /\ offsets' = Offsets(profile_times')
            /\ total_duration' = offsets'[Len(offsets')]
            /\ pc' = "set_current"
            /\ exit_code' = exit_code
    /\ UNCHANGED << cfg, now, jitter_used, hw, sent, loopv, errv, summary_done >>

\* set_current(args.current_limit)
SetCurrent ==
    /\ pc = "set_current"
    /\ sent' = Append(sent, set_current(CurrentLimit))
    /\ now' = now + SettleTicks
    /\ pc' = "set_voltage0"
    /\ UNCHANGED << cfg, jitter_used, hw, prof, loopv, errv, exit_code,
                    summary_done >>

\* set_voltage(profile_voltages[0])
SetInitialVoltage ==
    /\ pc = "set_voltage0"
    /\ sent' = Append(sent, set_voltage(profile_voltages[1]))
    /\ now' = now + SettleTicks
    /\ pc' = "output_on"
    /\ UNCHANGED << cfg, jitter_used, hw, prof, loopv, errv, exit_code,
                    summary_done >>

\* output_on(); time.sleep(0.5)
OutputOn ==
    /\ pc = "output_on"
    /\ sent' = Append(sent, output_on)
    /\ now' = now + SettleTicks + OutputOnWaitTicks
    /\ pc' = "v_check"
    /\ UNCHANGED << cfg, jitter_used, hw, prof, loopv, errv, exit_code,
                    summary_done >>

\* v_check = ina.bus_voltage; start_time = time.time(); sample_count = 0;
\* last_set_voltage = None
VCheck ==
    /\ pc = "v_check"
    /\ read_mark' = Len(sent)
    /\ start_time' = now
    /\ sample_count' = 0
    /\ last_set_voltage' = NoneV
    /\ pc' = "open_out"
    /\ UNCHANGED << cfg, now, jitter_used, hw, sent, prof, elapsed, target_v,
                    log, out_opened, errv, exit_code, summary_done >>

\* try: with open(args.output, 'w'): writer.writerow(header)
OpenOutput ==
    /\ pc = "open_out"
    /\ out_opened' = TRUE
    /\ pc' = "loop_top"
    /\ UNCHANGED << cfg, now, jitter_used, hw, sent, prof, start_time,
                    sample_count, last_set_voltage, elapsed, target_v,
                    read_mark, log, errv, exit_code, summary_done >>

\* now = time.time(); elapsed = now - start_time;
\* if elapsed > total_duration: break; target_v = round(np.interp(...), 2)
LoopTop ==
    /\ pc = "loop_top"
    /\ \E j \in 0..(IF jitter_used < MaxJitter THEN 1 ELSE 0), up \in BOOLEAN :
        /\ now' = now + j
        /\ jitter_used' = jitter_used + j
        /\ elapsed' = now' - start_time
        /\ IF LoopDone(elapsed', total_duration)
           THEN pc' = "stopping" /\ target_v' = target_v
           ELSE /\ pc' = "apply"
                /\ target_v' = Interp(elapsed', offsets, profile_voltages, up)
    /\ UNCHANGED << cfg, hw, sent, prof, start_time, sample_count,
                    last_set_voltage, read_mark, log, out_opened, errv,
                    exit_code, summary_done >>

\* if target_v != last_set_voltage: set_voltage(target_v); last_set_voltage = target_v
ApplyVoltage ==
    /\ pc = "apply"
    /\ IF NeedsSend(target_v, last_set_voltage)
       THEN /\ sent' = Append(sent, set_voltage(target_v * 10))
            /\ now' = now + SettleTicks
            /\ last_set_voltage' = target_v
       ELSE UNCHANGED << sent, now, last_set_voltage >>
    /\ pc' = "sample"
    /\ UNCHANGED << cfg, jitter_used, hw, prof, start_time, sample_count,
                    elapsed, target_v, read_mark, log, out_opened, errv,
                    exit_code, summary_done >>

\* v = ina.bus_voltage; i = ina.current; p = ina.power
Sample ==
    /\ pc = "sample"
    /\ read_mark' = Len(sent)
    /\ pc' = "log"
    /\ UNCHANGED << cfg, now, jitter_used, hw, sent, prof, start_time,
                    sample_count, last_set_voltage, elapsed, target_v, log,
                    out_opened, errv, exit_code, summary_done >>

\* writer.writerow(...); data_*.append(...); sample_count += 1; time.sleep(interval)
LogRow ==
    /\ pc = "log"
    /\ log' = Append(log, [time_s |-> elapsed, set_voltage |-> target_v,
                           mark |-> read_mark, cmds |-> Len(sent)])
    /\ sample_count' = sample_count + 1
    /\ now' = now + cfg.interval
    /\ pc' = "loop_top"
    /\ UNCHANGED << cfg, jitter_used, hw, sent, prof, start_time,
                    last_set_voltage, elapsed, target_v, read_mark,
                    out_opened, errv, exit_code, summary_done >>

\* an Exception raised inside the try block (file open, supply write,
\* monitor read, log write) reaches "except Exception"
CaughtFault ==
    /\ pc \in {"open_out", "sample", "log"} \cup
              (IF NeedsSend(target_v, last_set_voltage) THEN {"apply"} ELSE {})
    /\ pc' = "error"
    /\ cause' = "fault"
    /\ fault_pc' = pc
    /\ fault_mark' = Len(sent)
    /\ faults' = faults + 1
    /\ UNCHANGED << cfg, now, jitter_used, hw, sent, prof, loopv, exit_code,
                    summary_done >>

\* except Exception: output_off(); psu.close(); sys.exit(2)
ErrorShutdown ==
    /\ pc = "error"
    /\ sent' = Append(sent, output_off)
    /\ now' = now + SettleTicks
    /\ psu_closed' = TRUE
    /\ pc' = "exited"
    /\ exit_code' = 2
    /\ UNCHANGED << cfg, jitter_used, ina_opened, psu_opened, idn, prof,
                    loopv, errv, summary_done >>

\* after the loop: output_off(); psu.close()
Stopping ==
    /\ pc = "stopping"
    /\ sent' = Append(sent, output_off)
    /\ now' = now + SettleTicks
    /\ psu_closed' = TRUE
    /\ pc' = "stats"
    /\ UNCHANGED << cfg, jitter_used, ina_opened, psu_opened, idn, prof,
                    loopv, errv, exit_code, summary_done >>

\* np.mean / np.max / np.min over the samples (np.max of an empty array
\* raises ValueError), summary, plot, sys.exit(0)
Report ==
    /\ pc = "stats"
    /\ IF sample_count = 0
       THEN exit_code' = 1 /\ summary_done' = summary_done
       ELSE exit_code' = 0 /\ summary_done' = TRUE
    /\ pc' = "exited"
    /\ UNCHANGED << cfg, now, jitter_used, hw, sent, prof, loopv, errv >>

\* an exception raised outside the try block, or inside the except handler,
\* is not handled: traceback, exit status 1
UncaughtFault ==
    /\ pc \in {"ina_setup", "psu_open", "idn", "load", "set_current",
               "set_voltage0", "output_on", "v_check", "error", "stopping"}
    /\ pc' = "exited"
    /\ exit_code' = 1
    /\ cause' = "fault"
    /\ fault_pc' = IF faults = 0 THEN pc ELSE fault_pc
    /\ fault_mark' = IF faults = 0 THEN Len(sent) ELSE fault_mark
    /\ faults' = faults + 1
    /\ UNCHANGED << cfg, now, jitter_used, hw, sent, prof, loopv, summary_done >>

\* SIGINT raises KeyboardInterrupt, which is not an Exception: no handler
\* of the script catches it
Interrupt ==
    /\ pc # "exited"
    /\ pc' = "exited"
    /\ exit_code' = 130
    /\ cause' = "interrupt"
    /\ fault_pc' = pc
    /\ fault_mark' = Len(sent)
    /\ UNCHANGED << cfg, now, jitter_used, hw, sent, prof, loopv, faults,
                    summary_done >>

Next ==
    \/ InaSetup
    \/ PsuOpen
    \/ IdnProbe
    \/ LoadProfile
    \/ SetCurrent
    \/ SetInitialVoltage
    \/ OutputOn
    \/ VCheck
    \/ OpenOutput
    \/ LoopTop
    \/ ApplyVoltage
    \/ Sample
    \/ LogRow
    \/ CaughtFault
    \/ ErrorShutdown
    \/ Stopping
    \/ Report
    \/ UncaughtFault
    \/ Interrupt

Spec == Init /\ [][Next]_vars

----------------------------------------------------------------------------
(* Vocabulary of the properties *)

Exited == pc = "exited"
Running == {"loop_top", "apply", "sample", "log"}
LoopIO == {"apply", "sample", "log"}

Idx(op) == { k \in 1..Len(sent) : sent[k].op = op }
VsetIdx == Idx("VSET1")

\* the most recent VSET1 among the first n commands (0 if none)
LastVset(n) ==
    IF \E k \in VsetIdx : k <= n
    THEN CHOOSE k \in VsetIdx : k <= n /\ \A l \in VsetIdx : l <= n => l <= k
    ELSE 0

TwoPointRun == Len(cfg.profile) = 2
Dur == cfg.profile[2].epoch - cfg.profile[1].epoch

\* elapsed lies strictly between offsets[k] and offsets[k+1]
Inside(k) == offsets[k] < elapsed /\ elapsed < offsets[k + 1]
Segs == IF pc \in LoopIO THEN { k \in 1..(Len(offsets) - 1) : Inside(k) } ELSE {}
Lo(k) == IF profile_voltages[k] <= profile_voltages[k + 1]
         THEN profile_voltages[k] ELSE profile_voltages[k + 1]
Hi(k) == IF profile_voltages[k] <= profile_voltages[k + 1]
         THEN profile_voltages[k + 1] ELSE profile_voltages[k]
\* |10 * target_v - linear value| in millivolts, scaled by the segment length
ErrScaled(k) ==
    LET den == offsets[k + 1] - offsets[k]
        num == profile_voltages[k] * den
               + (profile_voltages[k + 1] - profile_voltages[k]) * (elapsed - offsets[k])
        d == 10 * target_v * den - num
    IN  IF d < 0 THEN 0 - d ELSE d
WithinTolerance(k) == ErrScaled(k) <= 5 * (offsets[k + 1] - offsets[k])

----------------------------------------------------------------------------
(* C1: on every path by which the process ends after OUT1 was sent (normal  *)
(* completion, fault anywhere after OUT1, interrupt), OUT0 has been sent    *)
(* after it before the process exits.                                       *)
C1_OutputNeverLeftOn ==
    (Exited /\ Idx("OUT1") # {}) =>
        \E k \in Idx("OUT0") : \A l \in Idx("OUT1") : l < k

(* C2: an interrupt delivered while the replay loop is RUNNING goes through *)
(* the shutdown path: OUT0 sent, serial channel closed, and no VSET1 sent   *)
(* after the interrupt.                                                     *)
C2_InterruptShutsDown ==
    (Exited /\ cause = "interrupt" /\ fault_pc \in Running) =>
        /\ \E k \in Idx("OUT0") : k > fault_mark
        /\ psu_closed
        /\ \A k \in VsetIdx : k <= fault_mark

(* C3: an I/O exception raised at a step of an iteration of the polling     *)
(* loop (supply write, monitor read, log write) leads to exactly one OUT0,  *)
(* no VSET1 after the fault, a closed serial channel and a non-zero exit    *)
(* status.                                                                  *)
C3_FaultShutsDownOnce ==
    (Exited /\ cause = "fault" /\ faults = 1 /\ fault_pc \in LoopIO) =>
        /\ Cardinality(Idx("OUT0")) = 1
        /\ fault_mark + 1 \in Idx("OUT0")
        /\ \A k \in VsetIdx : k <= fault_mark
        /\ psu_closed
        /\ exit_code > 0

C3_Witness ==
    /\ Exited /\ cause = "fault" /\ faults = 1
    /\ fault_pc = "log" /\ sample_count >= 1

(* C4: a profile with 0 or 1 rows ends the run with a configuration error   *)
(* before any hardware I/O: no serial channel opened or written, no monitor *)
(* bus accessed.                                                            *)
C4_ConfigErrorBeforeHardware ==
    (Exited /\ cause = "none" /\ idn \notin {"", "?"} /\ Len(cfg.profile) < 2) =>
        /\ exit_code > 0
        /\ ~psu_opened
        /\ ~ina_opened
        /\ sent = << >>

(* C5: over the whole run a VSET1 is sent only when its value differs from  *)
(* the value of the previous VSET1: no two consecutive VSET1 commands carry *)
(* the same value.                                                          *)
C5_NoRepeatedVset ==
    \A k \in VsetIdx : \A l \in VsetIdx :
        (k < l /\ \A m \in VsetIdx : ~(k < m /\ m < l)) =>
            sent[k].arg # sent[l].arg

(* C6: an empty response to the identity probe ends the process with a      *)
(* non-zero status, and no OUT1, ISET1 or VSET1 has ever been sent.         *)
C6_NoIdentityNoOutput ==
    (idn = "") =>
        /\ Exited
        /\ exit_code > 0
        /\ Idx("OUT1") = {} /\ Idx("ISET1") = {} /\ VsetIdx = {}

C6_Witness == Exited /\ idn = "" /\ exit_code = 2 /\ psu_opened

(* C7 as stated: the run of [(0, 5.00), (10, 4.00)] at a 1 s poll interval  *)
(* logs exactly 11 rows at t = 0..10, strictly decreasing from 5.00, the    *)
(* last one at 4.00.                                                        *)
C7_ElevenRows ==
    (cfg = E2E /\ Exited /\ exit_code = 0) =>
        /\ Len(log) = 11
        /\ \A k \in 1..11 : log[k].time_s = (k - 1) * E2EInterval
        /\ \A k \in 1..10 : log[k].set_voltage > log[k + 1].set_voltage
        /\ log[1].set_voltage = 500
        /\ log[11].set_voltage = 400

(* C7 amended: for a two-point profile of duration D > 0 whose poll         *)
(* interval P divides D, at most D/P rows are logged (the settle delay of   *)
(* the first VSET1 pushes every later sample past its nominal time), the    *)
(* logged set_voltage values never increase when the profile falls, and     *)
(* each stays within 5 mV of the range of the two profile voltages.         *)
C7_AtMostDOverPRows ==
    (TwoPointRun /\ Dur > 0 /\ Dur % cfg.interval = 0) =>
        /\ Len(log) <= Dur \div cfg.interval
        /\ \A k \in 1..Len(log) :
            /\ 10 * log[k].set_voltage >= Lo(1) - 5
            /\ 10 * log[k].set_voltage <= Hi(1) + 5
        /\ (cfg.profile[1].voltage >= cfg.profile[2].voltage) =>
             \A k \in 1..(Len(log) - 1) :
                 log[k].set_voltage >= log[k + 1].set_voltage

C7_Witness ==
    /\ cfg = E2E /\ Exited /\ exit_code = 0
    /\ Len(log) = 10
    /\ log[10].set_voltage > 400

(* C8: for every profile with at least two rows, a loop that ends by normal *)
(* completion (no fault, no interrupt) reaches DONE: summary computed, exit *)
(* status 0, also when the duration is 0 or shorter than the first poll.    *)
C8_NormalCompletionIsDone ==
    (Exited /\ cause = "none" /\ Len(profile_times) >= 2) =>
        exit_code = 0 /\ summary_done

(* C9 as stated: for elapsed strictly between two consecutive offsets the   *)
(* rounded target lies between min(v0, v1) and max(v0, v1) inclusive and is *)
(* within 0.005 V of the linear value.                                      *)
C9_TargetBetweenEndpoints ==
    \A k \in Segs :
        /\ Lo(k) <= 10 * target_v
        /\ 10 * target_v <= Hi(k)
        /\ WithinTolerance(k)

(* C9 amended: for elapsed strictly between two consecutive offsets the     *)
(* rounded target is within 0.005 V of the linear value, hence between      *)
(* min(v0, v1) - 0.005 and max(v0, v1) + 0.005.                             *)
C9_TargetWithinTolerance ==
    \A k \in Segs :
        /\ Lo(k) - 5 <= 10 * target_v
        /\ 10 * target_v <= Hi(k) + 5
        /\ WithinTolerance(k)

C9_Witness ==
    /\ pc = "apply"
    /\ \E k \in Segs :
        /\ profile_voltages[k] # profile_voltages[k + 1]
        /\ ErrScaled(k) > 0

(* C10: each log row carries the value of the most recent VSET1 sent when   *)
(* the row is written, that command precedes the monitor reading of the     *)
(* row, and the number of rows equals sample_count.                         *)
C10_RowMatchesLastVset ==
    /\ Len(log) = sample_count
    /\ \A r \in 1..Len(log) :
        /\ LastVset(log[r].cmds) > 0
        /\ sent[LastVset(log[r].cmds)].arg = log[r].set_voltage
        /\ LastVset(log[r].cmds) <= log[r].mark
        /\ log[r].mark <= log[r].cmds

C10_Witness ==
    /\ Len(log) >= 2
    /\ log[1].set_voltage # log[2].set_voltage
    /\ sample_count = Len(log)

====
